---- MODULE Spec2Model ----
(***************************************************************************)
(* Model of app.py: the CSV loader/consolidator (load_and_transform), the  *)
(* event extractor (get_dips_and_momentum), the summary aggregator         *)
(* (compute_summary_stats) and the page script that chains them through    *)
(* the entity and date-range filters.                                      *)
(*                                                                         *)
(* Text is a tuple of one-character strings, so that lower(), substring    *)
(* search, strip() and str.replace() are computed and not assumed.         *)
(* float64 values are exact rationals extended with +inf, -inf and NaN     *)
(* (pandas' null): [k |-> "q" | "inf" | "nan", n |-> numerator or sign,    *)
(* d |-> denominator].  Binary rounding of float64 is not modelled.        *)
(* A timestamp is an integer count of ticks; a calendar day holds          *)
(* TicksPerDay ticks.                                                      *)
(***************************************************************************)
EXTENDS Integers, Sequences, FiniteSets, TLC

\* ------------------------------------------------------------------
\* Characters and text
\* ------------------------------------------------------------------

UpperChars == <<"A","B","C","D","E","F","G","H","I","J","K","L","M",
                "N","O","P","Q","R","S","T","U","V","W","X","Y","Z">>

LowerChars == <<"a","b","c","d","e","f","g","h","i","j","k","l","m",
                "n","o","p","q","r","s","t","u","v","w","x","y","z">>

DigitChars == <<"0","1","2","3","4","5","6","7","8","9">>

\* U+00A0, the no-break space, written as a one-character token.
NBSP == "nbsp"

InSeq(s, c) == \E i \in 1..Len(s) : s[i] = c

\* The tuple with the elements of a function on 1..n, each computed once.
AsSeq(f) == SubSeq(f, 1, Len(f))

IndexOf(s, c) == CHOOSE i \in 1..Len(s) : s[i] = c

\* Unicode code point of a character (Python compares str by code point).
CodePoint(c) ==
  IF InSeq(UpperChars, c) THEN 64 + IndexOf(UpperChars, c)
  ELSE IF InSeq(LowerChars, c) THEN 96 + IndexOf(LowerChars, c)
  ELSE IF InSeq(DigitChars, c) THEN 47 + IndexOf(DigitChars, c)
  ELSE CASE c = " " -> 32
         [] c = "$" -> 36
         [] c = "(" -> 40
         [] c = ")" -> 41
         [] c = "," -> 44
         [] c = "-" -> 45
         [] c = "." -> 46
         [] c = "_" -> 95
         [] c = NBSP -> 160

Chars ==
  {UpperChars[i] : i \in 1..26} \cup {LowerChars[i] : i \in 1..26}
  \cup {DigitChars[i] : i \in 1..10} \cup {" ", "$", "(", ")", ",", "-", ".", "_", NBSP}

OrdTable == [c \in Chars |-> CodePoint(c)]

Ord(c) == OrdTable[c]

\* str.lower() on one character.
LowerChar(c) == IF InSeq(UpperChars, c) THEN LowerChars[IndexOf(UpperChars, c)] ELSE c

\* str.lower()
Lower(s) == AsSeq([i \in 1..Len(s) |-> LowerChar(s[i])])

\* `key in s`: substring test.
Contains(s, key) ==
  \E i \in 0..(Len(s) - Len(key)) : SubSeq(s, i + 1, i + Len(key)) = key

\* Python's str ordering: a < b, decided at the first position where the
\* two differ, or by length when one is a prefix of the other.
StrLess(a, b) ==
  LET m == IF Len(a) < Len(b) THEN Len(a) ELSE Len(b)
      diff == {i \in 1..m : a[i] # b[i]}
  IN IF diff = {} THEN Len(a) < Len(b)
     ELSE LET i == CHOOSE x \in diff : \A y \in diff : x <= y
          IN Ord(a[i]) < Ord(b[i])

\* str.replace(c, ""): every occurrence of the character removed.
RECURSIVE RemoveChar(_, _)
RemoveChar(s, c) ==
  IF s = <<>> THEN <<>>
  ELSE IF Head(s) = c THEN RemoveChar(Tail(s), c)
  ELSE <<Head(s)>> \o RemoveChar(Tail(s), c)

\* str.strip(): leading and trailing spaces removed.
RECURSIVE Strip(_)
Strip(s) ==
  IF s = <<>> THEN <<>>
  ELSE IF Head(s) = " " THEN Strip(Tail(s))
  ELSE IF s[Len(s)] = " " THEN Strip(SubSeq(s, 1, Len(s) - 1))
  ELSE s

\* ------------------------------------------------------------------
\* float64 arithmetic on extended rationals
\* ------------------------------------------------------------------

Abs(x) == IF x < 0 THEN -x ELSE x

RECURSIVE GCD(_, _)
GCD(a, b) == IF b = 0 THEN a ELSE GCD(b, a % b)

NaN == [k |-> "nan", n |-> 0, d |-> 1]

Inf(sign) == [k |-> "inf", n |-> sign, d |-> 1]

\* The rational n/d (d # 0) in lowest terms with a positive denominator.
Q(n, d) ==
  LET g == GCD(Abs(n), Abs(d))
      s == IF d < 0 THEN -1 ELSE 1
  IN [k |-> "q", n |-> (s * n) \div g, d |-> (s * d) \div g]

IsNull(x) == x.k = "nan"

IsFinite(x) == x.k = "q"

Sign(x) == IF x.n > 0 THEN 1 ELSE IF x.n < 0 THEN -1 ELSE 0

Neg(x) == IF x.k = "nan" THEN NaN ELSE [x EXCEPT !.n = -x.n]

\* x + y
Add(x, y) ==
  IF x.k = "nan" \/ y.k = "nan" THEN NaN
  ELSE IF x.k = "inf" /\ y.k = "inf" THEN (IF x.n = y.n THEN x ELSE NaN)
  ELSE IF x.k = "inf" THEN x
  ELSE IF y.k = "inf" THEN y
  ELSE LET g == GCD(x.d, y.d)
       IN Q(x.n * (y.d \div g) + y.n * (x.d \div g), (x.d \div g) * y.d)

Sub(x, y) == Add(x, Neg(y))

\* x * y
Mul(x, y) ==
  IF x.k = "nan" \/ y.k = "nan" THEN NaN
  ELSE IF x.k = "inf" \/ y.k = "inf"
       THEN (IF Sign(x) * Sign(y) = 0 THEN NaN ELSE Inf(Sign(x) * Sign(y)))
  ELSE Q(x.n * y.n, x.d * y.d)

\* x / y, with IEEE results for a zero divisor (pandas raises nothing).
Div(x, y) ==
  IF x.k = "nan" \/ y.k = "nan" THEN NaN
  ELSE IF x.k = "inf" /\ y.k = "inf" THEN NaN
  ELSE IF x.k = "inf" THEN Inf(Sign(x) * (IF Sign(y) < 0 THEN -1 ELSE 1))
  ELSE IF y.k = "inf" THEN Q(0, 1)
  ELSE IF y.n = 0 THEN (IF x.n = 0 THEN NaN ELSE Inf(Sign(x)))
  ELSE Q(x.n * y.d, x.d * y.n)

\* x <= y; every comparison with NaN is False.
Leq(x, y) ==
  IF x.k = "nan" \/ y.k = "nan" THEN FALSE
  ELSE IF x.k = "inf" THEN (x.n = -1 \/ (y.k = "inf" /\ y.n = 1))
  ELSE IF y.k = "inf" THEN y.n = 1
  ELSE x.n * y.d <= y.n * x.d

Geq(x, y) == Leq(y, x)

\* x > y
Gt(x, y) == Leq(y, x) /\ x # y

\* Python's round(x, 2): to the nearest hundredth, ties to the even one;
\* NaN and the infinities are returned as they are.
Round2(x) ==
  IF x.k # "q" THEN x
  ELSE LET t == 100 * x.n
           f == t \div x.d
           r == 2 * (t - f * x.d)
       IN IF r < x.d THEN Q(f, 100)
          ELSE IF r > x.d THEN Q(f + 1, 100)
          ELSE IF f % 2 = 0 THEN Q(f, 100) ELSE Q(f + 1, 100)

\* ------------------------------------------------------------------
\* ETL helpers
\* ------------------------------------------------------------------

\* The alias table, in its insertion order (dict iteration order).
COMPANY_LABELS ==
  << [key   |-> <<"g","e","n","e","r","a","l"," ","d","y","n","a","m","i","c","s">>,
      label |-> <<"G","e","n","e","r","a","l"," ","D","y","n","a","m","i","c","s">>],
     [key   |-> <<"l","o","c","k","h","e","e","d"," ","m","a","r","t","i","n">>,
      label |-> <<"L","o","c","k","h","e","e","d"," ","M","a","r","t","i","n">>],
     [key   |-> <<"n","o","r","t","h","r","o","p"," ","g","r","u","m","m","a","n">>,
      label |-> <<"N","o","r","t","h","r","o","p"," ","G","r","u","m","m","a","n">>],
     [key   |-> <<"r","t","x"," ","c","o","r","p">>,
      label |-> <<"R","T","X"," ","C","o","r","p">>],
     [key   |-> <<"b","o","e","i","n","g">>,
      label |-> <<"B","o","e","i","n","g">> ] >>

\* filename.rsplit(".", 1)[0]: the text before the last dot, or all of it.
RsplitDotHead(s) ==
  LET dots == {i \in 1..Len(s) : s[i] = "."}
  IN IF dots = {} THEN s
     ELSE SubSeq(s, 1, (CHOOSE i \in dots : \A j \in dots : j <= i) - 1)

infer_company_name(filename) ==
  LET lower_name == Lower(filename)
      hits == {i \in 1..Len(COMPANY_LABELS) : Contains(lower_name, COMPANY_LABELS[i].key)}
  IN IF hits # {}
     THEN COMPANY_LABELS[CHOOSE i \in hits : \A j \in hits : i <= j].label
     ELSE RsplitDotHead(filename)

IsDigits(s) == \A i \in 1..Len(s) : InSeq(DigitChars, s[i])

RECURSIVE Pow10(_)
Pow10(e) == IF e = 0 THEN 1 ELSE 10 * Pow10(e - 1)

\* Value of a text of decimal digits (0 for the empty text).
RECURSIVE DigitsValue(_)
DigitsValue(s) ==
  IF s = <<>> THEN 0
  ELSE 10 * DigitsValue(SubSeq(s, 1, Len(s) - 1)) + (IndexOf(DigitChars, s[Len(s)]) - 1)

\* pd.to_numeric(text, errors="coerce") on one cell: an optional sign, then
\* digits with at most one decimal point, or inf/infinity in any case;
\* anything else (also the empty text, and "nan") is NaN.  Exponent notation
\* is outside the cells the model draws.
to_numeric(s) ==
  LET signed == s # <<>> /\ Head(s) \in {"-", "+"}
      sgn    == IF s # <<>> /\ Head(s) = "-" THEN -1 ELSE 1
      body   == IF signed THEN Tail(s) ELSE s
      dots   == {i \in 1..Len(body) : body[i] = "."}
  IN IF body = <<>> THEN NaN
     ELSE IF Lower(body) \in {<<"i","n","f">>, <<"i","n","f","i","n","i","t","y">>}
          THEN Inf(sgn)
     ELSE IF dots = {}
          THEN (IF IsDigits(body) THEN Q(sgn * DigitsValue(body), 1) ELSE NaN)
     ELSE IF Cardinality(dots) = 1
          THEN LET p  == CHOOSE i \in dots : TRUE
                   ip == SubSeq(body, 1, p - 1)
                   fp == SubSeq(body, p + 1, Len(body))
               IN IF IsDigits(ip) /\ IsDigits(fp) /\ Len(ip) + Len(fp) > 0
                  THEN Q(sgn * (DigitsValue(ip) * Pow10(Len(fp)) + DigitsValue(fp)),
                         Pow10(Len(fp)))
                  ELSE NaN
     ELSE NaN

\* One cell of clean_numeric_column: the four str.replace calls, then
\* pd.to_numeric(errors="coerce").
clean_numeric_column(cell) ==
  to_numeric(RemoveChar(RemoveChar(RemoveChar(RemoveChar(cell, NBSP), " "), ","), "$"))

\* pandas' NaT, the missing timestamp; real timestamps are ticks >= 0.
NaT == -1

\* One cell of pd.to_datetime(errors="coerce").  A Date cell is
\* [ok |-> TRUE, t |-> ticks] for a text that parses to that instant and
\* [ok |-> FALSE, t |-> 0] for a text that does not parse.
to_datetime(cell) == IF cell.ok THEN cell.t ELSE NaT

\* Timestamp.date() / Series.dt.date: the calendar day of a timestamp.
TicksPerDay == 2

DateOf(t) == t \div TicksPerDay

\* ------------------------------------------------------------------
\* Data frames: [columns |-> tuple of column names, rows |-> tuple of rows]
\* ------------------------------------------------------------------

\* sort_values on several keys (pandas' lexsort) keeps the input order of
\* rows with equal keys: element i goes after every element that is before
\* it in the order, and after the equal ones that precede it in the input.
StableSort(s, Before(_, _)) ==
  LET n == Len(s)
      pos == AsSeq([i \in 1..n |->
                1 + Cardinality({j \in 1..n :
                       \/ Before(s[j], s[i])
                       \/ (j < i /\ ~Before(s[i], s[j]))})])
  IN AsSeq([p \in 1..n |-> s[CHOOSE i \in 1..n : pos[i] = p]])

\* The rows of s at the positions in idx, in order (boolean-mask indexing).
Take(s, idx) ==
  LET F[k \in 0..Len(s)] ==
        IF k = 0 THEN <<>>
        ELSE IF k \in idx THEN Append(F[k - 1], s[k]) ELSE F[k - 1]
  IN F[Len(s)]

RECURSIVE Concat(_)
Concat(frames) == IF frames = <<>> THEN <<>> ELSE Head(frames) \o Concat(Tail(frames))

DateText == <<"D","a","t","e">>

PriceText == <<"P","r","i","c","e">>

required_cols == {DateText, PriceText}

\* df.columns = [c.strip() for c in df.columns]
StrippedColumns(f) == AsSeq([i \in 1..Len(f.columns) |-> Strip(f.columns[i])])

HasRequiredCols(f) ==
  \A c \in required_cols : InSeq(StrippedColumns(f), c)

\* pd.read_csv(uploaded), and on any exception the retry
\* pd.read_csv(uploaded, encoding="latin-1"), which no try block encloses:
\* when the retry raises too, the exception leaves load_and_transform.
ReadRaises(f) == ~f.read1 /\ ~f.read2

\* df[name]: the column under the stripped header name.
ColumnIndex(f, name) == IndexOf(StrippedColumns(f), name)

\* temp: company, parsed date and cleaned price of every row of one file.
TempRows(f) ==
  LET company == infer_company_name(f.name)
      di == ColumnIndex(f, DateText)
      pi == ColumnIndex(f, PriceText)
  IN AsSeq([i \in 1..Len(f.rows) |->
        [company |-> company,
         date    |-> to_datetime(f.rows[i][di]),
         price   |-> clean_numeric_column(f.rows[i][pi])]])

\* temp.dropna(subset=["date", "price"])
RECURSIVE DropNa(_)
DropNa(rows) ==
  IF rows = <<>> THEN <<>>
  ELSE IF Head(rows).date = NaT \/ IsNull(Head(rows).price) THEN DropNa(Tail(rows))
  ELSE <<Head(rows)>> \o DropNa(Tail(rows))

\* The for loop over the uploaded files: frames appended, warnings issued,
\* and raised set when a file's two reads both fail (the loop ends there).
RECURSIVE LoadLoop(_, _)
LoadLoop(files, acc) ==
  IF files = <<>> THEN acc
  ELSE LET f == Head(files)
       IN IF ReadRaises(f) THEN [acc EXCEPT !.raised = TRUE]
          ELSE IF ~HasRequiredCols(f)
               THEN LoadLoop(Tail(files),
                             [acc EXCEPT !.warnings = Append(@, f.name)])
          ELSE LoadLoop(Tail(files),
                        [acc EXCEPT !.frames = Append(@, DropNa(TempRows(f)))])

\* A sort by date alone, the order C2 excludes.
MutRowBefore(a, b) == a.date < b.date

\* data.sort_values(["company", "date"]): the sort order.
RowBefore(a, b) ==
  \/ StrLess(a.company, b.company)
  \/ (a.company = b.company /\ a.date < b.date)

\* A percentage change against the row just above, whatever its company,
\* the computation C1 excludes.
MutPctChange(rows, i) ==
  IF i = 1 THEN NaN
  ELSE Mul(Sub(Div(rows[i].price, rows[i - 1].price), Q(1, 1)), Q(100, 1))

\* groupby("company")["price"].pct_change() * 100.0 for row i: against the
\* nearest earlier row of the same company, NaN when there is none.
PctChange(rows, i) ==
  LET prevs == {j \in 1..(i - 1) : rows[j].company = rows[i].company}
  IN IF prevs = {} THEN NaN
     ELSE LET j == CHOOSE x \in prevs : \A y \in prevs : y <= x
          IN Mul(Sub(Div(rows[i].price, rows[j].price), Q(1, 1)), Q(100, 1))

WithReturns(rows) ==
  AsSeq([i \in 1..Len(rows) |->
     [company    |-> rows[i].company,
      date       |-> rows[i].date,
      price      |-> rows[i].price,
      return_pct |-> PctChange(rows, i)]])

FullColumns == <<"company", "date", "price", "return_pct">>

\* The value that stands for "no frame" when the call raised.
NoFrame == [columns |-> <<>>, rows |-> <<>>]

\* load_and_transform(files): [raised, warnings, data].
load_and_transform(files) ==
  LET r == LoadLoop(files, [raised |-> FALSE, warnings |-> <<>>, frames |-> <<>>])
  IN IF r.raised
     THEN [raised |-> TRUE, warnings |-> r.warnings, data |-> NoFrame]
     ELSE IF r.frames = <<>>
     THEN [raised |-> FALSE, warnings |-> r.warnings,
           data |-> [columns |-> FullColumns, rows |-> <<>>]]
     ELSE [raised |-> FALSE, warnings |-> r.warnings,
           data |-> [columns |-> <<"company", "date", "price">> \o <<"return_pct">>,
                     rows |-> WithReturns(StableSort(Concat(r.frames), RowBefore))]]

\* ------------------------------------------------------------------
\* get_dips_and_momentum
\* ------------------------------------------------------------------

EventColumns == <<"date", "company", "price", "return_pct">>

\* Events by date ascending, the order C4 excludes.
MutEventBefore(a, b) ==
  \/ a.date < b.date
  \/ (a.date = b.date /\ StrLess(a.company, b.company))

\* sort_values(["date", "company"], ascending=[False, True]): the sort order.
EventBefore(a, b) ==
  \/ a.date > b.date
  \/ (a.date = b.date /\ StrLess(a.company, b.company))

\* Declines strictly below -threshold, the exclusive boundary C3 excludes.
MutDipRows(rows, threshold) ==
  Take(rows, {i \in 1..Len(rows) :
                ~IsNull(rows[i].return_pct)
                /\ ~Geq(rows[i].return_pct, Q(-Abs(threshold), 1))})

\* data[data["return_pct"] <= -abs(threshold)]
DipRows(rows, threshold) ==
  Take(rows, {i \in 1..Len(rows) : Leq(rows[i].return_pct, Q(-Abs(threshold), 1))})

\* data[data["return_pct"] >= abs(threshold)]
MomentumRows(rows, threshold) ==
  Take(rows, {i \in 1..Len(rows) : Geq(rows[i].return_pct, Q(Abs(threshold), 1))})

\* get_dips_and_momentum(data, threshold): [dips, momentum].
get_dips_and_momentum(data, threshold) ==
  IF data.rows = <<>>
  THEN [dips     |-> [columns |-> EventColumns, rows |-> <<>>],
        momentum |-> [columns |-> EventColumns, rows |-> <<>>]]
  ELSE [dips     |-> [columns |-> data.columns,
                      rows |-> StableSort(DipRows(data.rows, threshold), EventBefore)],
        momentum |-> [columns |-> data.columns,
                      rows |-> StableSort(MomentumRows(data.rows, threshold), EventBefore)]]

\* ------------------------------------------------------------------
\* compute_summary_stats
\* ------------------------------------------------------------------

\* The keys of data.groupby("company"), which iterates them in sorted order.
GroupKeys(rows) ==
  LET C == {rows[i].company : i \in 1..Len(rows)}
  IN AsSeq([p \in 1..Cardinality(C) |->
        CHOOSE c \in C : Cardinality({x \in C : StrLess(x, c)}) = p - 1])

\* df_c: the rows of one company, in the order of data.
GroupRows(rows, company) ==
  Take(rows, {i \in 1..Len(rows) : rows[i].company = company})

\* The first and last rows of df_c as it stands, without the sort by date,
\* the reading C7 excludes.
MutFirstLastChoices(df_c) == {<<1, Len(df_c)>>}

\* df_c.sort_values("date") is a single-key sort with pandas' default
\* kind="quicksort", which is not stable: rows with equal dates may come out
\* in any order.  Only iloc[0] and iloc[-1] of the sorted frame are read, so
\* an outcome is a pair <<first, last>> of positions in df_c: first among
\* the rows of the earliest date, last among those of the latest date, and
\* two different rows when df_c has more than one.
FirstLastChoices(df_c) ==
  LET n == Len(df_c)
  IN {fl \in (1..n) \X (1..n) :
        /\ \A i \in 1..n : df_c[fl[1]].date <= df_c[i].date
        /\ \A i \in 1..n : df_c[i].date <= df_c[fl[2]].date
        /\ (n = 1 \/ fl[1] # fl[2])}

\* The non-null values of a column (pandas reductions skip NaN).
NonNull(vals) == Take(vals, {i \in 1..Len(vals) : ~IsNull(vals[i])})

RECURSIVE SumSeq(_)
SumSeq(vals) == IF vals = <<>> THEN Q(0, 1) ELSE Add(Head(vals), SumSeq(Tail(vals)))

\* floor(sqrt(n)) for n >= 0, by bisection on lo <= sqrt(n) < hi.
RECURSIVE ISqrtIn(_, _, _)
ISqrtIn(n, lo, hi) ==
  IF hi - lo <= 1 THEN lo
  ELSE LET mid == (lo + hi) \div 2
       IN IF mid <= n \div mid THEN ISqrtIn(n, mid, hi) ELSE ISqrtIn(n, lo, mid)

ISqrt(n) == IF n = 0 THEN 0 ELSE ISqrtIn(n, 1, 46341)

\* floor(40000 * n / d) for n >= 0, d > 0, in two steps of 200 to stay in range.
Floor40000(n, d) ==
  LET q0 == n \div d
      r0 == n % d
      q1 == (200 * r0) \div d
      r1 == (200 * r0) % d
      q2 == (200 * r1) \div d
  IN 40000 * q0 + 200 * q1 + q2

\* round(sqrt(v), 2) for a rational v >= 0: the hundredth nearest to the
\* root, from floor(sqrt(40000 v)) = floor(2 * 100 * sqrt(v)).
Round2Sqrt(v) == Q((ISqrt(Floor40000(v.n, v.d)) + 1) \div 2, 100)

\* round(Series.std(), 2): the sample standard deviation (ddof=1) of the
\* non-null values; NaN with fewer than two of them, and NaN when one of
\* them is infinite (inf - inf).
Round2Std(vals) ==
  LET xs == NonNull(vals)
      n  == Len(xs)
  IN IF n < 2 THEN NaN
     ELSE IF \E i \in 1..n : ~IsFinite(xs[i]) THEN NaN
     ELSE LET sum == SumSeq(xs)
              sq  == SumSeq(AsSeq([i \in 1..n |-> Mul(xs[i], xs[i])]))
              var == Div(Sub(Mul(Q(n, 1), sq), Mul(sum, sum)), Q(n * (n - 1), 1))
          IN Round2Sqrt(var)

\* Series.max(): the largest non-null value, NaN when there is none.
SeriesMax(vals) ==
  LET xs == NonNull(vals)
  IN IF xs = <<>> THEN NaN
     ELSE xs[CHOOSE i \in 1..Len(xs) : \A j \in 1..Len(xs) : Leq(xs[j], xs[i])]

\* Series.min()
SeriesMin(vals) ==
  LET xs == NonNull(vals)
  IN IF xs = <<>> THEN NaN
     ELSE xs[CHOOSE i \in 1..Len(xs) : \A j \in 1..Len(xs) : Leq(xs[i], xs[j])]

\* (last_price / first_price - 1) * 100 if first_price > 0 else np.nan
TotalReturn(first_price, last_price) ==
  IF Gt(first_price, Q(0, 1))
  THEN Mul(Sub(Div(last_price, first_price), Q(1, 1)), Q(100, 1))
  ELSE NaN

StatsColumns ==
  <<"Empresa", "Preco inicial", "Preco final", "Retorno total (%)",
    "Volatilidade media (%)", "Maior alta semanal (%)", "Maior queda semanal (%)">>

\* The dict appended for one company, given the sort outcome <<first, last>>.
CompanyStats(df_c, company, fl) ==
  LET first_price == df_c[fl[1]].price
      last_price  == df_c[fl[2]].price
      returns     == AsSeq([i \in 1..Len(df_c) |-> df_c[i].return_pct])
  IN [Empresa    |-> company,
      Preco_inicial |-> Round2(first_price),
      Preco_final   |-> Round2(last_price),
      Retorno_total |-> Round2(TotalReturn(first_price, last_price)),
      Volatilidade_media  |-> Round2Std(returns),
      Maior_alta_semanal  |-> Round2(SeriesMax(returns)),
      Maior_queda_semanal |-> Round2(SeriesMin(returns))]

\* The lists `stats` the loop over the groups can build, one per outcome of
\* the per-company sorts.
RECURSIVE StatsLists(_, _)
StatsLists(rows, keys) ==
  IF keys = <<>> THEN {<<>>}
  ELSE LET df_c == GroupRows(rows, Head(keys))
       IN {<<CompanyStats(df_c, Head(keys), fl)>> \o rest :
             fl \in FirstLastChoices(df_c), rest \in StatsLists(rows, Tail(keys))}

\* compute_summary_stats(data): the set of frames it can return.
compute_summary_stats(data) ==
  IF data.rows = <<>> THEN {[columns |-> <<>>, rows |-> <<>>]}
  ELSE {[columns |-> StatsColumns, rows |-> st] :
          st \in StatsLists(data.rows, GroupKeys(data.rows))}

\* ------------------------------------------------------------------
\* Inputs: uploaded files, arbitrary frames, widget values
\* ------------------------------------------------------------------

\* "Boeing.csv"
NameBoeing == <<"B","o","e","i","n","g",".","c","s","v">>

\* "BOEING (2).csv": the same company from a second file.
NameBoeing2 == <<"B","O","E","I","N","G"," ","(","2",")",".","c","s","v">>

\* "acme.csv": no alias matches, the name without extension is the company.
NameAcme == <<"a","c","m","e",".","c","s","v">>

FileNames == {NameBoeing, NameBoeing2, NameAcme}

DateCell(t) == [ok |-> TRUE, t |-> t]

BadDateCell == [ok |-> FALSE, t |-> 0]

Txt100 == <<"1","0","0">>

Txt110 == <<"1","1","0">>

Txt99 == <<"9","9">>

\* "$ 1,10": cleans to 110.
TxtDollar110 == <<"$"," ","1",",","1","0">>

TxtAbc == <<"a","b","c">>

TxtZero == <<"0">>

HeaderPlain == <<DateText, PriceText>>

\* " Date", "Price ": the required names once stripped.
HeaderSpaced == <<<<" ">> \o DateText, PriceText \o <<" ">>>>

\* "Date", "Close": no Price column.
HeaderNoPrice == <<DateText, <<"C","l","o","s","e">>>>

\* "Price" only: no Date column.
HeaderNoDate == <<PriceText, <<"V","o","l">>>>

\* Rows of the files of a page run: three valid rows on three days.
PageCells ==
  {<<DateCell(2), Txt100>>, <<DateCell(4), Txt110>>, <<DateCell(6), Txt99>>}

\* Rows of the files handed to load_and_transform alone: valid rows (one
\* with a formatted price, one with a zero price later on the first day) and
\* rows with an unparseable date or an unparseable price.
LoadCells ==
  {<<DateCell(2), Txt100>>, <<DateCell(4), TxtDollar110>>, <<DateCell(3), TxtZero>>,
   <<BadDateCell, Txt110>>, <<DateCell(4), TxtAbc>>}

\* Rows in one upload, over all its files.
MaxRows == 3

CsvFile(name, read1, read2, columns, rows) ==
  [name |-> name, read1 |-> read1, read2 |-> read2, columns |-> columns, rows |-> rows]

\* One-row files off the plain path: both reads raise (an empty file raises
\* EmptyDataError twice; it counts as one row here), a required column is
\* missing, or the first read raises, the latin-1 retry succeeds and the
\* headers carry spaces.
SpecialFiles ==
  {CsvFile(n, FALSE, FALSE, <<>>, <<>>) : n \in {NameAcme, NameBoeing}} \cup
  {CsvFile(NameAcme, TRUE, TRUE, h, <<<<DateCell(2), Txt100>>>>) :
     h \in {HeaderNoPrice, HeaderNoDate}} \cup
  {CsvFile(NameBoeing2, FALSE, TRUE, HeaderSpaced, <<<<DateCell(2), Txt100>>>>)}

\* The files of n rows: a plain header, either read succeeding, rows drawn
\* from cells; and the special files among those of one row.
FilesOfSize(cells, n) ==
  {CsvFile(name, TRUE, TRUE, HeaderPlain, rows) :
     name \in FileNames, rows \in [1..n -> cells]}
  \cup (IF n = 1 THEN SpecialFiles ELSE {})

\* Sizes of the two files of an upload of at most MaxRows rows in all.
TwoFileSizes == {m \in (0..MaxRows) \X (0..MaxRows) : m[1] + m[2] <= MaxRows}

\* What st.file_uploader can hand over here: no file, one file or two files,
\* with at most MaxRows rows in all.
IsUpload(cells, files) ==
  \/ files = <<>>
  \/ \E n \in 0..MaxRows : \E f \in FilesOfSize(cells, n) : files = <<f>>
  \/ \E m \in TwoFileSizes :
       \E f \in FilesOfSize(cells, m[1]), g \in FilesOfSize(cells, m[2]) :
          files = <<f, g>>

SeqsUpTo(S, n) == UNION {[1..k -> S] : k \in 0..n}

\* The slider of the page: min_value, value (the default) and max_value.
ThresholdMin == 5

ThresholdDefault == 10

ThresholdMax == 30

SliderValues == {ThresholdMin, ThresholdDefault, ThresholdMax}

\* Frames handed to the two analysis functions alone: any rows in any order.
PureCompanies == {infer_company_name(NameBoeing), infer_company_name(NameAcme)}

PureRows ==
  [company : PureCompanies,
   date : {2, 3},
   price : {Q(0, 1), Q(100, 1), Q(110, 1)},
   return_pct : {NaN, Q(-10, 1), Q(10, 1), Q(-999, 100)}]

MaxPureRows == 2

PureFrames == {[columns |-> FullColumns, rows |-> r] : r \in SeqsUpTo(PureRows, MaxPureRows)}

\* ------------------------------------------------------------------
\* State
\* ------------------------------------------------------------------

VARIABLES
  pc,                 \* where the run stands
  uploaded_files,     \* the files handed over by st.file_uploader
  warnings,           \* names of the files st.warning reported as ignored
  consolidated,       \* the frame load_and_transform returned
  data,               \* the module-level `data`, rebound by each filter
  selected_companies, \* the multiselect's value
  date_range,         \* the date_input's value
  threshold,          \* the slider's value
  dips,               \* first frame returned by get_dips_and_momentum
  momentum,           \* second frame returned by get_dips_and_momentum
  stats_df,           \* frame returned by compute_summary_stats
  message             \* the last st.warning / st.error / st.success of the page

vars == <<pc, uploaded_files, warnings, consolidated, data, selected_companies,
          date_range, threshold, dips, momentum, stats_df, message>>

\* The texts of st.warning, st.error and st.success, without their accents.
MsgNeedUpload == "Envie ao menos um arquivo CSV para iniciar a analise."

MsgNoValidData == "Nao foi possivel carregar dados validos dos arquivos enviados."

MsgSelectCompany == "Selecione ao menos uma empresa."

MsgEmptyRange == "Nenhum dado no intervalo selecionado. Ajuste as datas ou as empresas."

MsgSuccess == "Dados carregados com sucesso"

InitRest ==
  /\ warnings = <<>>
  /\ consolidated = NoFrame
  /\ selected_companies = {}
  /\ date_range = <<>>
  /\ threshold = 0
  /\ dips = NoFrame
  /\ momentum = NoFrame
  /\ stats_df = NoFrame
  /\ message = ""

\* ------------------------------------------------------------------
\* The page script, top to bottom
\* ------------------------------------------------------------------

Init ==
  /\ pc = "upload"
  /\ IsUpload(PageCells, uploaded_files)
  /\ data = NoFrame
  /\ InitRest

\* if not uploaded_files: st.warning(...); st.stop()
NoUpload ==
  /\ pc = "upload"
  /\ uploaded_files = <<>>
  /\ pc' = "stop_no_upload"
  /\ message' = MsgNeedUpload
  /\ UNCHANGED <<uploaded_files, warnings, consolidated, data, selected_companies,
                 date_range, threshold, dips, momentum, stats_df>>

\* data = load_and_transform(uploaded_files); if data.empty: st.error; st.stop()
Load ==
  /\ pc = "upload"
  /\ uploaded_files # <<>>
  /\ LET r == load_and_transform(uploaded_files)
     IN /\ warnings' = r.warnings
        /\ consolidated' = r.data
        /\ data' = r.data
        /\ pc' = IF r.raised THEN "exception"
                 ELSE IF r.data.rows = <<>> THEN "stop_no_data"
                 ELSE "loaded"
        /\ message' = IF ~r.raised /\ r.data.rows = <<>> THEN MsgNoValidData ELSE message
  /\ UNCHANGED <<uploaded_files, selected_companies, date_range, threshold,
                 dips, momentum, stats_df>>

\* data[data["company"].isin(selected_companies)]
FilterCompanies(frame, selected) ==
  [frame EXCEPT !.rows =
     Take(frame.rows, {i \in 1..Len(frame.rows) : frame.rows[i].company \in selected})]

\* The multiselect over the companies of the data (any subset may come back),
\* the stop on an empty selection, and the entity filter.
SelectCompanies ==
  /\ pc = "loaded"
  /\ \E sel \in SUBSET {data.rows[i].company : i \in 1..Len(data.rows)} :
       /\ selected_companies' = sel
       /\ IF sel = {}
          THEN /\ pc' = "stop_no_company"
               /\ message' = MsgSelectCompany
               /\ data' = data
          ELSE /\ pc' = "selected"
               /\ message' = message
               /\ data' = FilterCompanies(data, sel)
  /\ UNCHANGED <<uploaded_files, warnings, consolidated, date_range, threshold,
                 dips, momentum, stats_df>>

\* data["date"].min().date() and data["date"].max().date()
MinDate(frame) ==
  DateOf(frame.rows[CHOOSE i \in 1..Len(frame.rows) :
                       \A j \in 1..Len(frame.rows) : frame.rows[i].date <= frame.rows[j].date].date)

MaxDate(frame) ==
  DateOf(frame.rows[CHOOSE i \in 1..Len(frame.rows) :
                       \A j \in 1..Len(frame.rows) : frame.rows[j].date <= frame.rows[i].date].date)

\* What st.date_input can return for a range value within [min, max]: a
\* tuple of two days, or of one or no day while the range is being picked.
DateInputValues(min_date, max_date) ==
  {t \in (min_date..max_date) \X (min_date..max_date) : t[1] <= t[2]}
  \cup {<<a>> : a \in min_date..max_date}
  \cup {<<>>}

\* A date mask that leaves the end day out, the loss C8 excludes.
MutFilterDatesOpenEnd(frame, start_date, end_date) ==
  [frame EXCEPT !.rows =
     Take(frame.rows, {i \in 1..Len(frame.rows) :
                         /\ DateOf(frame.rows[i].date) >= start_date
                         /\ DateOf(frame.rows[i].date) < end_date})]

\* A date mask followed by a fresh pct_change over the view, the
\* recomputation C10 excludes.
MutFilterDatesRecompute(frame, start_date, end_date) ==
  [frame EXCEPT !.rows =
     WithReturns(Take(frame.rows, {i \in 1..Len(frame.rows) :
                         /\ DateOf(frame.rows[i].date) >= start_date
                         /\ DateOf(frame.rows[i].date) <= end_date}))]

\* data[(data["date"].dt.date >= start_date) & (data["date"].dt.date <= end_date)]
FilterDates(frame, start_date, end_date) ==
  [frame EXCEPT !.rows =
     Take(frame.rows, {i \in 1..Len(frame.rows) :
                         /\ DateOf(frame.rows[i].date) >= start_date
                         /\ DateOf(frame.rows[i].date) <= end_date})]

\* The date_input, `start_date, end_date = date_range` (a ValueError unless
\* the tuple holds two days), the date mask, and the stop on an empty view.
SelectDates ==
  /\ pc = "selected"
  /\ \E dr \in DateInputValues(MinDate(data), MaxDate(data)) :
       /\ date_range' = dr
       /\ IF Len(dr) # 2
          THEN /\ pc' = "exception"
               /\ data' = data
               /\ message' = message
          ELSE LET view == FilterDates(data, dr[1], dr[2])
               IN /\ data' = view
                  /\ pc' = IF view.rows = <<>> THEN "stop_empty_filter" ELSE "filtered"
                  /\ message' = IF view.rows = <<>> THEN MsgEmptyRange ELSE MsgSuccess
  /\ UNCHANGED <<uploaded_files, warnings, consolidated, selected_companies, threshold,
                 dips, momentum, stats_df>>

\* Sections 3 and 4: the slider, get_dips_and_momentum, compute_summary_stats.
Analyse ==
  /\ pc = "filtered"
  /\ \E t \in SliderValues :
       /\ threshold' = t
       /\ dips' = get_dips_and_momentum(data, t).dips
       /\ momentum' = get_dips_and_momentum(data, t).momentum
  /\ stats_df' \in compute_summary_stats(data)
  /\ pc' = "done"
  /\ UNCHANGED <<uploaded_files, warnings, consolidated, data, selected_companies,
                 date_range, message>>

Next == NoUpload \/ Load \/ SelectCompanies \/ SelectDates \/ Analyse

Spec == Init /\ [][Next]_vars

\* ------------------------------------------------------------------
\* load_and_transform called on its own, on any sequence of files
\* ------------------------------------------------------------------

InitLoad ==
  /\ pc = "call_load"
  /\ IsUpload(LoadCells, uploaded_files)
  /\ data = NoFrame
  /\ InitRest

CallLoad ==
  /\ pc = "call_load"
  /\ LET r == load_and_transform(uploaded_files)
     IN /\ warnings' = r.warnings
        /\ consolidated' = r.data
        /\ pc' = IF r.raised THEN "load_raised" ELSE "load_returned"
  /\ UNCHANGED <<uploaded_files, data, selected_companies, date_range, threshold,
                 dips, momentum, stats_df, message>>

NextLoad == CallLoad

SpecLoad == InitLoad /\ [][NextLoad]_vars

\* ------------------------------------------------------------------
\* The two analysis functions called on their own, on any frame
\* ------------------------------------------------------------------

InitPure ==
  /\ pc = "call_pure"
  /\ uploaded_files = <<>>
  /\ data \in PureFrames
  /\ InitRest

CallDips ==
  /\ pc = "call_pure"
  /\ \E t \in SliderValues :
       /\ threshold' = t
       /\ dips' = get_dips_and_momentum(data, t).dips
       /\ momentum' = get_dips_and_momentum(data, t).momentum
  /\ pc' = "dips_returned"
  /\ UNCHANGED <<uploaded_files, warnings, consolidated, data, selected_companies,
                 date_range, stats_df, message>>

CallStats ==
  /\ pc = "call_pure"
  /\ stats_df' \in compute_summary_stats(data)
  /\ pc' = "stats_returned"
  /\ UNCHANGED <<uploaded_files, warnings, consolidated, data, selected_companies,
                 date_range, threshold, dips, momentum, message>>

NextPure == CallDips \/ CallStats

SpecPure == InitPure /\ [][NextPure]_vars

\* ------------------------------------------------------------------
\* Vocabulary of the properties
\* ------------------------------------------------------------------

\* r is 100 * (cur / prev - 1) for finite prices cur and prev, stated by
\* cross-multiplication; with prev = 0 the quotient is +inf, -inf or NaN.
IsPctOf(r, cur, prev) ==
  IF prev.n = 0
  THEN r = (IF cur.n = 0 THEN NaN ELSE IF cur.n > 0 THEN Inf(1) ELSE Inf(-1))
  ELSE /\ r.k = "q"
       /\ r.n * prev.n * cur.d = 100 * r.d * (cur.n * prev.d - prev.n * cur.d)

\* y is x rounded to two decimals: a whole number of hundredths at most half
\* a hundredth away from x, the even one when x lies halfway.
IsRound2Of(y, x) ==
  IF x.k # "q" THEN y = x
  ELSE /\ y.k = "q"
       /\ 100 % y.d = 0
       /\ LET gap == Abs(x.n * y.d - y.n * x.d)
          IN /\ 200 * gap <= x.d * y.d
             /\ (200 * gap = x.d * y.d => (y.n * (100 \div y.d)) % 2 = 0)

Count(s, x) == Cardinality({i \in 1..Len(s) : s[i] = x})

SameMultiset(s, t) ==
  /\ Len(s) = Len(t)
  /\ \A i \in 1..Len(s) : Count(s, s[i]) = Count(t, s[i])

Triple(row) == [company |-> row.company, date |-> row.date, price |-> row.price]

Triples(rows) == AsSeq([i \in 1..Len(rows) |-> Triple(rows[i])])

\* A file the loader cannot use: unreadable by both reads, or without a Date
\* or a Price column after header trimming.
Malformed(f) ==
  \/ (~f.read1 /\ ~f.read2)
  \/ ~(\E i \in 1..Len(f.columns) : Strip(f.columns[i]) = DateText)
  \/ ~(\E i \in 1..Len(f.columns) : Strip(f.columns[i]) = PriceText)

\* The valid rows of a well-formed file, in file order: those whose date
\* parses and whose price cleans to a number.
ValidRowsOf(f) ==
  IF Malformed(f) THEN <<>>
  ELSE LET t == TempRows(f)
       IN Take(t, {i \in 1..Len(t) : t[i].date # NaT /\ t[i].price.k # "nan"})

ValidRows(files) == Concat(AsSeq([k \in 1..Len(files) |-> ValidRowsOf(files[k])]))

LoadEnded == pc \in {"load_returned", "load_raised"}

\* ------------------------------------------------------------------
\* Properties of load_and_transform (SpecLoad)
\* ------------------------------------------------------------------

\* C1: in a returned dataset, a row that follows a row of the same entity
\* has return_pct = 100 * (price / price of that preceding row - 1); any
\* other row is the first chronological row of its entity (no earlier row of
\* the entity exists, and none of its rows has an earlier date) and has a
\* null return_pct.
C1_ReturnPerEntity ==
  pc = "load_returned" =>
    LET rows == consolidated.rows
    IN \A i \in 1..Len(rows) :
         IF i > 1 /\ rows[i - 1].company = rows[i].company
         THEN IsPctOf(rows[i].return_pct, rows[i].price, rows[i - 1].price)
         ELSE /\ \A j \in 1..Len(rows) :
                   rows[j].company = rows[i].company =>
                     (j >= i /\ rows[i].date <= rows[j].date)
              /\ rows[i].return_pct.k = "nan"

\* C1 witness: two files of one entity, the second holding the earlier
\* dates, so that the entity's rows interleave across the files and carry
\* non-zero returns.
C1_Witness ==
  /\ pc = "load_returned"
  /\ Len(uploaded_files) = 2
  /\ uploaded_files[1].name # uploaded_files[2].name
  /\ ValidRowsOf(uploaded_files[1]) # <<>>
  /\ ValidRowsOf(uploaded_files[2]) # <<>>
  /\ ValidRowsOf(uploaded_files[1])[1].company = ValidRowsOf(uploaded_files[2])[1].company
  /\ ValidRowsOf(uploaded_files[2])[1].date < ValidRowsOf(uploaded_files[1])[1].date
  /\ Len(consolidated.rows) >= 3
  /\ \E i \in 1..Len(consolidated.rows) :
       consolidated.rows[i].return_pct.k = "q" /\ consolidated.rows[i].return_pct.n # 0

\* C2: a returned dataset is sorted ascending by (entity, date), and holds
\* every valid input row as often as the input files do (no row dropped,
\* none added, duplicates of (entity, date) kept).
C2_SortedNoDedup ==
  pc = "load_returned" =>
    LET rows == consolidated.rows
    IN /\ \A i \in 1..(Len(rows) - 1) :
            \/ StrLess(rows[i].company, rows[i + 1].company)
            \/ (rows[i].company = rows[i + 1].company /\ rows[i].date <= rows[i + 1].date)
       /\ SameMultiset(Triples(rows), ValidRows(uploaded_files))

\* C2 witness: the files come in an order that is neither the entity order
\* nor the date order, and two rows share entity and date.
C2_Witness ==
  /\ pc = "load_returned"
  /\ Len(uploaded_files) = 2
  /\ Triples(consolidated.rows) # ValidRows(uploaded_files)
  /\ \E i \in 1..(Len(consolidated.rows) - 1) :
       /\ consolidated.rows[i].company = consolidated.rows[i + 1].company
       /\ consolidated.rows[i].date = consolidated.rows[i + 1].date
  /\ \E i, j \in 1..Len(consolidated.rows) :
       consolidated.rows[i].company # consolidated.rows[j].company

\* C5: a malformed file is skipped with a warning naming it, the call does
\* not fail, and the valid rows of the other files are all returned.
C5_MalformedSkipped ==
  LoadEnded =>
    /\ pc = "load_returned"
    /\ \A k \in 1..Len(uploaded_files) :
         Malformed(uploaded_files[k]) => InSeq(warnings, uploaded_files[k].name)
    /\ SameMultiset(Triples(consolidated.rows), ValidRows(uploaded_files))

\* C6: when no valid row survives loading, the call returns, without
\* raising, an empty dataset with the columns company, date, price,
\* return_pct.
C6_EmptyShape ==
  (LoadEnded /\ ValidRows(uploaded_files) = <<>>) =>
    /\ pc = "load_returned"
    /\ consolidated.rows = <<>>
    /\ consolidated.columns = <<"company", "date", "price", "return_pct">>

\* ------------------------------------------------------------------
\* Properties of the analysis functions (SpecPure)
\* ------------------------------------------------------------------

\* r is a non-null return at or below -t.
IsDecline(r, t) == (r.k = "q" /\ r.n <= -t * r.d) \/ (r.k = "inf" /\ r.n = -1)

\* r is a non-null return at or above t.
IsRise(r, t) == (r.k = "q" /\ r.n >= t * r.d) \/ (r.k = "inf" /\ r.n = 1)

\* C3: declines holds exactly the rows with a non-null return_pct <= -t, and
\* rises exactly those with a non-null return_pct >= t, each as often as the
\* dataset holds it; a null return_pct is in neither.
C3_ExactSets ==
  pc = "dips_returned" =>
    \A x \in {data.rows[i] : i \in 1..Len(data.rows)}
             \cup {dips.rows[i] : i \in 1..Len(dips.rows)}
             \cup {momentum.rows[i] : i \in 1..Len(momentum.rows)} :
      /\ Count(dips.rows, x) =
           (IF IsDecline(x.return_pct, threshold) THEN Count(data.rows, x) ELSE 0)
      /\ Count(momentum.rows, x) =
           (IF IsRise(x.return_pct, threshold) THEN Count(data.rows, x) ELSE 0)

\* C3 witness: a row exactly at -threshold is a decline while a row at -9.99
\* with threshold 10 is not.
C3_Witness ==
  /\ pc = "dips_returned"
  /\ threshold = 10
  /\ \E i, j \in 1..Len(data.rows) :
       /\ data.rows[i].return_pct = Q(-10, 1)
       /\ InSeq(dips.rows, data.rows[i])
       /\ data.rows[j].return_pct = Q(-999, 100)
       /\ ~InSeq(dips.rows, data.rows[j])

OrderedEvents(rows) ==
  \A i \in 1..(Len(rows) - 1) :
    \/ rows[i].date > rows[i + 1].date
    \/ (rows[i].date = rows[i + 1].date
        /\ (rows[i].company = rows[i + 1].company
            \/ StrLess(rows[i].company, rows[i + 1].company)))

\* C4: declines and rises are each ordered by date descending and, among
\* rows of one date, by entity ascending, whatever the order of the input.
C4_EventOrder ==
  pc = "dips_returned" => (OrderedEvents(dips.rows) /\ OrderedEvents(momentum.rows))

\* C4 witness: two rises of one date enter as "acme" then "Boeing" and come
\* out as "Boeing" then "acme".
C4_Witness ==
  /\ pc = "dips_returned"
  /\ Len(data.rows) = 2
  /\ Len(momentum.rows) = 2
  /\ data.rows[1].date = data.rows[2].date
  /\ StrLess(data.rows[2].company, data.rows[1].company)
  /\ momentum.rows = <<data.rows[2], data.rows[1]>>

\* 100 * (cur / prev - 1) for prev > 0, as an unreduced fraction.
ExactPct(cur, prev) ==
  [k |-> "q", n |-> 100 * (cur.n * prev.d - prev.n * cur.d), d |-> prev.n * cur.d]

CompaniesOf(rows) == {rows[i].company : i \in 1..Len(rows)}

\* The records are one per entity of the dataset, in ascending entity order.
OnePerEntityAscending(recs, rows) ==
  /\ Len(recs) = Cardinality(CompaniesOf(rows))
  /\ \A i \in 1..Len(recs) : recs[i].Empresa \in CompaniesOf(rows)
  /\ \A i \in 1..(Len(recs) - 1) : StrLess(recs[i].Empresa, recs[i + 1].Empresa)

NonNullReturns(rows, company) ==
  {i \in 1..Len(rows) : rows[i].company = company /\ rows[i].return_pct.k # "nan"}

\* Row a has the earliest date of its entity and row b the latest, and they
\* are two rows unless the entity has one.
EarliestLatest(rows, company, a, b) ==
  /\ rows[a].company = company
  /\ rows[b].company = company
  /\ \A i \in 1..Len(rows) :
       rows[i].company = company =>
         (rows[a].date <= rows[i].date /\ rows[i].date <= rows[b].date)
  /\ (a = b => Cardinality({i \in 1..Len(rows) : rows[i].company = company}) = 1)

\* C7 as stated: one record per entity in ascending order, first price and
\* last price the prices of the earliest-dated and latest-dated rows, total
\* return 100 * (last / first - 1) when first > 0 and null otherwise,
\* volatility null with fewer than 2 non-null returns.
C7_SummaryExact ==
  (pc = "stats_returned" /\ data.rows # <<>>) =>
    /\ OnePerEntityAscending(stats_df.rows, data.rows)
    /\ \A k \in 1..Len(stats_df.rows) :
         LET rec == stats_df.rows[k]
         IN /\ \E a, b \in 1..Len(data.rows) :
                 /\ EarliestLatest(data.rows, rec.Empresa, a, b)
                 /\ rec.Preco_inicial = data.rows[a].price
                 /\ rec.Preco_final = data.rows[b].price
                 /\ IF data.rows[a].price.n > 0
                    THEN IsPctOf(rec.Retorno_total, data.rows[b].price, data.rows[a].price)
                    ELSE rec.Retorno_total.k = "nan"
            /\ (Cardinality(NonNullReturns(data.rows, rec.Empresa)) < 2
                  => rec.Volatilidade_media.k = "nan")

\* C7 amended: the same, with first price, last price and total return each
\* rounded to two decimals, and "the earliest-dated (latest-dated) row" read
\* as a row of the entity's earliest (latest) date.
C7_SummaryRounded ==
  (pc = "stats_returned" /\ data.rows # <<>>) =>
    /\ OnePerEntityAscending(stats_df.rows, data.rows)
    /\ \A k \in 1..Len(stats_df.rows) :
         LET rec == stats_df.rows[k]
         IN /\ \E a, b \in 1..Len(data.rows) :
                 /\ EarliestLatest(data.rows, rec.Empresa, a, b)
                 /\ IsRound2Of(rec.Preco_inicial, data.rows[a].price)
                 /\ IsRound2Of(rec.Preco_final, data.rows[b].price)
                 /\ IF data.rows[a].price.n > 0
                    THEN IsRound2Of(rec.Retorno_total,
                                    ExactPct(data.rows[b].price, data.rows[a].price))
                    ELSE rec.Retorno_total.k = "nan"
            /\ (Cardinality(NonNullReturns(data.rows, rec.Empresa)) < 2
                  => rec.Volatilidade_media.k = "nan")

\* C7 witness: one entity, its later row first in the frame, 110 then 100 in
\* date order: total return -9.0909..., reported as -9.09, and a null
\* volatility with a single non-null return.
C7_Witness ==
  /\ pc = "stats_returned"
  /\ Len(data.rows) = 2
  /\ data.rows[1].company = data.rows[2].company
  /\ data.rows[1].date > data.rows[2].date
  /\ data.rows[1].return_pct.k = "nan"
  /\ data.rows[2].return_pct.k = "q"
  /\ Len(stats_df.rows) = 1
  /\ stats_df.rows[1].Preco_inicial = Q(110, 1)
  /\ stats_df.rows[1].Retorno_total = Q(-909, 100)
  /\ stats_df.rows[1].Volatilidade_media.k = "nan"

\* ------------------------------------------------------------------
\* Properties of the page run (Spec)
\* ------------------------------------------------------------------

\* The dates of rows never decrease.
Chronological(rows) == \A i \in 1..(Len(rows) - 1) : rows[i].date <= rows[i + 1].date

\* s is t with some elements left out: same elements, same relative order.
RECURSIVE IsSubSeq(_, _)
IsSubSeq(s, t) ==
  IF s = <<>> THEN TRUE
  ELSE IF t = <<>> THEN FALSE
  ELSE IF Head(s) = Head(t) THEN IsSubSeq(Tail(s), Tail(t))
  ELSE IsSubSeq(s, Tail(t))

\* The run got through both filters with a non-empty view.
Filtered == pc \in {"filtered", "done"}

\* C8: one file of one entity whose valid rows are in chronological order,
\* loaded, then filtered with the entity selected and the range from the
\* first to the last day of the loaded data, gives back exactly those rows
\* (entity, date, price) in the same order.
C8_RoundTrip ==
  (/\ Filtered
   /\ Len(uploaded_files) = 1
   /\ Chronological(ValidRowsOf(uploaded_files[1]))
   /\ date_range = <<MinDate(consolidated), MaxDate(consolidated)>>)
  => Triples(data.rows) = ValidRowsOf(uploaded_files[1])

\* C8 witness: one file of three rows on three days, filtered over its full
\* range.
C8_Witness ==
  /\ Filtered
  /\ Len(uploaded_files) = 1
  /\ Len(ValidRowsOf(uploaded_files[1])) = 3
  /\ \A i \in 1..2 :
       ValidRowsOf(uploaded_files[1])[i].date < ValidRowsOf(uploaded_files[1])[i + 1].date
  /\ date_range = <<MinDate(consolidated), MaxDate(consolidated)>>
  /\ Len(data.rows) = 3

\* get_dips_and_momentum or compute_summary_stats has run.
AnalysisReached ==
  pc = "done" \/ dips # NoFrame \/ momentum # NoFrame \/ stats_df # NoFrame

\* C9: a run whose upload holds no valid row ends in the "no valid data"
\* stop, a run whose filters leave nothing ends in the "empty filter" stop,
\* the two stops and their messages differ, neither run raises, and the
\* analysis is reached only with a non-empty loaded dataset and a non-empty
\* view.
C9_StopStates ==
  /\ MsgNoValidData # MsgEmptyRange
  /\ (pc # "upload" /\ uploaded_files # <<>> /\ ValidRows(uploaded_files) = <<>>)
       => (pc = "stop_no_data" /\ message = MsgNoValidData)
  /\ pc = "stop_no_data" => (message = MsgNoValidData /\ consolidated.rows = <<>>)
  /\ pc = "stop_empty_filter"
       => (message = MsgEmptyRange /\ consolidated.rows # <<>> /\ data.rows = <<>>)
  /\ AnalysisReached => (consolidated.rows # <<>> /\ data.rows # <<>>)

\* rec reports, for its entity, the largest and the smallest non-null
\* return_pct of rows (to two decimals; null when there is none), and a
\* volatility exactly when rows holds two or more non-null returns of it.
CountsReturns(rec, rows) ==
  LET idx == NonNullReturns(rows, rec.Empresa)
  IN /\ IF idx = {}
        THEN rec.Maior_alta_semanal.k = "nan" /\ rec.Maior_queda_semanal.k = "nan"
        ELSE /\ \E i \in idx :
                  /\ \A j \in idx : Leq(rows[j].return_pct, rows[i].return_pct)
                  /\ IsRound2Of(rec.Maior_alta_semanal, rows[i].return_pct)
             /\ \E i \in idx :
                  /\ \A j \in idx : Leq(rows[i].return_pct, rows[j].return_pct)
                  /\ IsRound2Of(rec.Maior_queda_semanal, rows[i].return_pct)
     /\ (rec.Volatilidade_media.k = "nan") <=> (Cardinality(idx) < 2)

\* C10: once loaded, the view is the consolidated dataset with rows left
\* out: each of its rows is a consolidated row with the same company, date,
\* price and return_pct, in the same relative order.  The analysis then
\* counts every non-null return_pct of the view, the one on an entity's
\* first row of the view included.
C10_PureProjection ==
  /\ pc \in {"loaded", "selected", "stop_no_company", "stop_empty_filter", "filtered", "done"}
       => IsSubSeq(data.rows, consolidated.rows)
  /\ pc = "done" =>
       /\ \A i \in 1..Len(data.rows) :
            /\ IsDecline(data.rows[i].return_pct, threshold)
                 => InSeq(dips.rows, data.rows[i])
            /\ IsRise(data.rows[i].return_pct, threshold)
                 => InSeq(momentum.rows, data.rows[i])
       /\ \A k \in 1..Len(stats_df.rows) : CountsReturns(stats_df.rows[k], data.rows)

\* C10 witness: prices 100, 110, 99 on days 1, 2, 3 and a range that starts
\* on day 2: the view opens with the row at 110, whose return of 10 was
\* computed against the row left out; it is a rise at threshold 10, the
\* largest return of the summary, and one of the two returns behind its
\* volatility.
C10_Witness ==
  /\ pc = "done"
  /\ threshold = ThresholdDefault
  /\ Len(consolidated.rows) = 3
  /\ Len(data.rows) = 2
  /\ date_range[1] > DateOf(consolidated.rows[1].date)
  /\ data.rows[1] = consolidated.rows[2]
  /\ data.rows[1].return_pct = Q(10, 1)
  /\ InSeq(momentum.rows, data.rows[1])
  /\ stats_df.rows[1].Maior_alta_semanal = Q(10, 1)
  /\ stats_df.rows[1].Volatilidade_media.k = "q"

====
